---- MODULE Spec2Model ----
(***************************************************************************)
(* A model of xq's chunked persistent stack, PStack<T, B>                  *)
(* (src/data_structure/mod.rs): a handle owns one `current` chunk by value *)
(* and shares, through Rc, an immutable chain of older chunks; and of the  *)
(* command line front end (src/bin/main.rs): the choice of formats, the    *)
(* splitting of TOML input into sections and the printing of results.      *)
(***************************************************************************)
EXTENDS Naturals, Sequences, FiniteSets

\* ---------------------------------------------------------------- bounds
MaxB == 2          \* chunk capacities explored: 1..MaxB (SpecCount: one more)
MaxLen == 3        \* pushes stop at this logical length of a handle (SpecCount: one more)
MaxPushes == 8     \* SpecCount: push calls counted on the handle
MaxPops == 6       \* SpecCount: pop calls counted on the handle
MaxResults == 3    \* SpecRun: items of result_iterator
MaxLines == 3      \* SpecRead: items of reader.lines()

Val == {1, 2}                  \* element values (the stack never inspects them)
None == 0                      \* Option::None; Some(v) is v itself
Handles == {1, 2}              \* a stack and a clone of it
\* Ids for every chain node that can be live at once: a handle of n elements
\* holds at most n - 1 nodes (B = 1).
NodeIds == 1..(Cardinality(Handles) * MaxLen)
NoNode == 0                    \* prev: None

VARIABLES
    observe,    \* what this run records: "calls" (last), "history" (fresh, snap)
                \* or "count" (the counters); fixed per specification
    B,          \* capacity of sized_chunks::InlineArray<T, B>, fixed per run
    handles,    \* handle -> [live, prev, current]: the PStack values on the stack
    nodes,      \* node id -> [rc, prev, current, made]: the PStack values inside an Rc
    last,       \* the last call: [op, h, ret, moved]; moved is "fold", "promote" or "none"
    panicked,   \* InlineArray::push was called on a full chunk
    ref,        \* reference model: handle -> the plain LIFO list it should hold
    fresh,      \* handle -> created by new() and only pushed to since
    snap,       \* handle -> <<list>> held by its source when it was cloned, <<>> once used
    npush, npop, npromote, nalloc,  \* call counters of handle 1 (SpecCount only)
    pc,         \* position of main(): "idle" while only the stack is exercised
    argv,       \* the options and the file given on the command line
    cli,        \* the Cli struct clap parsed from argv
    chosen,     \* [input, output]: get_input_format() and get_output_format()
    reader,     \* the items of reader.lines(), each a line or a read error
    li,         \* number of items of reader consumed
    buf,        \* the String buf of the TOML input iterator
    yielded,    \* the items the TOML input iterator has yielded
    results,    \* the items of result_iterator
    ri,         \* number of items of result_iterator consumed
    out         \* what was written, in order: [stream, by, value, end]

stackVars == <<observe, B, handles, nodes, last, panicked, ref, fresh, snap,
               npush, npop, npromote, nalloc>>

cliVars == <<pc, argv, cli, chosen, reader, li, buf, yielded, results, ri, out>>

vars == <<observe, B, handles, nodes, last, panicked, ref, fresh, snap,
          npush, npop, npromote, nalloc,
          pc, argv, cli, chosen, reader, li, buf, yielded, results, ri, out>>

\* ------------------------------------------------------- InlineArray<T, B>
is_full(c) == Len(c) = B
is_empty(c) == Len(c) = 0
chunk_last(c) == IF Len(c) = 0 THEN None ELSE c[Len(c)]
chunk_pop(c) == IF Len(c) = 0 THEN <<>> ELSE SubSeq(c, 1, Len(c) - 1)

\* ------------------------------------------------------------------- Rc
FreeNode == [rc |-> 0, prev |-> NoNode, current |-> <<>>, made |-> <<>>]

IsLive(ns, n) == n \in NodeIds /\ ns[n].rc > 0

FreeIds(ns) == {n \in NodeIds : ns[n].rc = 0}

MinOf(S) == CHOOSE x \in S : \A y \in S : x <= y

\* The chunks of the chain that starts at node n, newest first.
RECURSIVE ChainChunks(_, _, _)
ChainChunks(ns, n, fuel) ==
    IF n = NoNode \/ fuel = 0 THEN <<>>
    ELSE <<ns[n].current>> \o ChainChunks(ns, ns[n].prev, fuel - 1)

Chain(ns, n) == ChainChunks(ns, n, Cardinality(NodeIds))

\* Rc::new(built): the value moves into a fresh allocation with count 1.
\* made records, for the claims, the chain as it is at this moment.
Rc_new(ns, built) ==
    LET n == MinOf(FreeIds(ns))
    IN [id |-> n,
        ns |-> [ns EXCEPT ![n] = [rc |-> 1, prev |-> built.prev,
                                  current |-> built.current,
                                  made |-> <<built.current>> \o Chain(ns, built.prev)]]]

\* Option<Rc<_>>::clone: one more owner of the same allocation.
Rc_clone(ns, n) ==
    IF n = NoNode THEN ns ELSE [ns EXCEPT ![n].rc = @ + 1]

\* Mutant of Rc_drop: freeing a node leaves the node's own prev link counted.
Rc_drop_shallow(ns, n) ==
    IF n = NoNode \/ ~IsLive(ns, n) THEN ns
    ELSE IF ns[n].rc > 1 THEN [ns EXCEPT ![n].rc = @ - 1]
    ELSE [ns EXCEPT ![n] = FreeNode]

\* Dropping an Rc: the last owner frees the node, which drops the node's own prev.
RECURSIVE Rc_drop(_, _)
Rc_drop(ns, n) ==
    IF n = NoNode \/ ~IsLive(ns, n) THEN ns
    ELSE IF ns[n].rc > 1 THEN [ns EXCEPT ![n].rc = @ - 1]
    ELSE Rc_drop([ns EXCEPT ![n] = FreeNode], ns[n].prev)

\* --------------------------------------------------------------- PStack
default == [prev |-> NoNode, current |-> <<>>]

new == default

\* Mutant of fold: the node is built from a copy and current is not reset.
fold_keep_current(s, ns) ==
    LET a == Rc_new(ns, s)
    IN [s |-> [prev |-> a.id, current |-> s.current], ns |-> a.ns]

\* Mutant of fold: the new chain node is built without the old prev link.
fold_drop_link(s, ns) ==
    LET a == Rc_new(Rc_drop(ns, s.prev), [prev |-> NoNode, current |-> s.current])
    IN [s |-> [prev |-> a.id, current |-> <<>>], ns |-> a.ns]

\* push: a full current is folded, with the prev link, into a new chain node.
fold(s, ns) ==
    LET a == Rc_new(ns, s)
    IN [s |-> [prev |-> a.id, current |-> <<>>], ns |-> a.ns]

\* Mutant of push: the fullness test is off by one, a chunk with one free slot
\* is folded.
push_fold_off_by_one(s, ns, value) ==
    LET folded == Len(s.current) + 1 >= B
        f == IF folded THEN fold(s, ns) ELSE [s |-> s, ns |-> ns]
    IN [s |-> [f.s EXCEPT !.current = Append(@, value)],
        ns |-> f.ns, folded |-> folded, panic |-> FALSE]

\* Mutant of push: current is folded whenever it holds anything, full or not.
push_fold_nonempty(s, ns, value) ==
    LET folded == ~is_empty(s.current)
        f == IF folded THEN fold(s, ns) ELSE [s |-> s, ns |-> ns]
    IN [s |-> [f.s EXCEPT !.current = Append(@, value)],
        ns |-> f.ns, folded |-> folded, panic |-> FALSE]

push(s, ns, value) ==
    LET folded == is_full(s.current)
        f == IF folded THEN fold(s, ns) ELSE [s |-> s, ns |-> ns]
    IN IF is_full(f.s.current)
       THEN [s |-> f.s, ns |-> f.ns, folded |-> folded, panic |-> TRUE]
       ELSE [s |-> [f.s EXCEPT !.current = Append(@, value)],
             ns |-> f.ns, folded |-> folded, panic |-> FALSE]

\* Mutant of promote: the chunk is copied and prev is left where it was.
promote_keep_prev(s, ns) ==
    [s |-> [prev |-> s.prev, current |-> ns[s.prev].current], ns |-> ns]

\* Mutant of promote: the chunk is moved out of the shared node, not copied.
promote_move(s, ns) ==
    LET p == s.prev
        ns1 == Rc_clone(ns, ns[p].prev)
        ns2 == [ns1 EXCEPT ![p].current = <<>>]
    IN [s |-> [prev |-> ns[p].prev, current |-> ns[p].current],
        ns |-> Rc_drop(ns2, p)]

\* The promotion of pop and top_mut: prev.take(), prev = p.prev.clone(),
\* current.clone_from(&p.current); p is dropped when it goes out of scope.
promote(s, ns) ==
    LET p == s.prev
        ns1 == Rc_clone(ns, ns[p].prev)
    IN [s |-> [prev |-> ns[p].prev, current |-> ns[p].current],
        ns |-> Rc_drop(ns1, p)]

\* Mutant of pop: after a promotion the top element is read, not removed.
pop_promote_peek(s, ns) ==
    IF ~is_empty(s.current)
    THEN [s |-> [s EXCEPT !.current = chunk_pop(@)], ns |-> ns,
          ret |-> chunk_last(s.current), promoted |-> FALSE]
    ELSE IF s.prev # NoNode
    THEN LET m == promote(s, ns)
         IN [s |-> m.s, ns |-> m.ns,
             ret |-> chunk_last(m.s.current), promoted |-> TRUE]
    ELSE [s |-> s, ns |-> ns, ret |-> None, promoted |-> FALSE]

\* Mutant of pop: with current empty, the element is popped off the shared
\* chain node's own chunk.
pop_in_place(s, ns) ==
    IF ~is_empty(s.current)
    THEN [s |-> [s EXCEPT !.current = chunk_pop(@)], ns |-> ns,
          ret |-> chunk_last(s.current), promoted |-> FALSE]
    ELSE IF s.prev # NoNode
    THEN [s |-> s, ns |-> [ns EXCEPT ![s.prev].current = chunk_pop(@)],
          ret |-> chunk_last(ns[s.prev].current), promoted |-> FALSE]
    ELSE [s |-> s, ns |-> ns, ret |-> None, promoted |-> FALSE]

\* Mutant of pop: a pop that empties current promotes the previous node at once.
pop_eager(s, ns) ==
    IF ~is_empty(s.current)
    THEN LET s1 == [s EXCEPT !.current = chunk_pop(@)]
         IN IF is_empty(s1.current) /\ s1.prev # NoNode
            THEN LET m == promote(s1, ns)
                 IN [s |-> m.s, ns |-> m.ns,
                     ret |-> chunk_last(s.current), promoted |-> TRUE]
            ELSE [s |-> s1, ns |-> ns,
                  ret |-> chunk_last(s.current), promoted |-> FALSE]
    ELSE IF s.prev # NoNode
    THEN LET m == promote(s, ns)
         IN [s |-> [m.s EXCEPT !.current = chunk_pop(@)], ns |-> m.ns,
             ret |-> chunk_last(m.s.current), promoted |-> TRUE]
    ELSE [s |-> s, ns |-> ns, ret |-> None, promoted |-> FALSE]

\* Mutant of pop: the promotion copies the chunk and leaves prev where it was.
pop_keep_prev(s, ns) ==
    IF ~is_empty(s.current)
    THEN [s |-> [s EXCEPT !.current = chunk_pop(@)], ns |-> ns,
          ret |-> chunk_last(s.current), promoted |-> FALSE]
    ELSE IF s.prev # NoNode
    THEN [s |-> [s EXCEPT !.current = chunk_pop(ns[s.prev].current)], ns |-> ns,
          ret |-> chunk_last(ns[s.prev].current), promoted |-> TRUE]
    ELSE [s |-> s, ns |-> ns, ret |-> None, promoted |-> FALSE]

pop(s, ns) ==
    IF ~is_empty(s.current)
    THEN [s |-> [s EXCEPT !.current = chunk_pop(@)], ns |-> ns,
          ret |-> chunk_last(s.current), promoted |-> FALSE]
    ELSE IF s.prev # NoNode
    THEN LET m == promote(s, ns)
         IN [s |-> [m.s EXCEPT !.current = chunk_pop(@)], ns |-> m.ns,
             ret |-> chunk_last(m.s.current), promoted |-> TRUE]
    ELSE [s |-> s, ns |-> ns, ret |-> None, promoted |-> FALSE]

\* Mutant of top: an empty current reads as an empty stack, prev is not looked at.
top_no_prev(s, ns) ==
    IF is_empty(s.current) THEN None ELSE chunk_last(s.current)

top(s, ns) ==
    IF is_empty(s.current)
    THEN IF s.prev # NoNode THEN chunk_last(ns[s.prev].current) ELSE None
    ELSE chunk_last(s.current)

\* Mutant of top_mut: with current empty, the reference points into the shared
\* chain node's chunk; nothing is promoted.
top_mut_in_place(s, ns) ==
    IF is_empty(s.current)
    THEN IF s.prev # NoNode
         THEN [s |-> s, ns |-> ns, ret |-> chunk_last(ns[s.prev].current),
               at |-> s.prev, promoted |-> FALSE]
         ELSE [s |-> s, ns |-> ns, ret |-> None, at |-> NoNode, promoted |-> FALSE]
    ELSE [s |-> s, ns |-> ns, ret |-> chunk_last(s.current),
          at |-> NoNode, promoted |-> FALSE]

\* Mutant of top_mut: the promotion copies the chunk and leaves prev where it was.
top_mut_keep_prev(s, ns) ==
    IF is_empty(s.current)
    THEN IF s.prev # NoNode
         THEN [s |-> [s EXCEPT !.current = ns[s.prev].current], ns |-> ns,
               ret |-> chunk_last(ns[s.prev].current),
               at |-> NoNode, promoted |-> TRUE]
         ELSE [s |-> s, ns |-> ns, ret |-> None, at |-> NoNode, promoted |-> FALSE]
    ELSE [s |-> s, ns |-> ns, ret |-> chunk_last(s.current),
          at |-> NoNode, promoted |-> FALSE]

\* top_mut: ret is the element referred to (None: no reference); at is where the
\* reference points: NoNode for the handle's own current chunk, else a chain node.
top_mut(s, ns) ==
    IF is_empty(s.current)
    THEN IF s.prev # NoNode
         THEN LET m == promote(s, ns)
              IN [s |-> m.s, ns |-> m.ns, ret |-> chunk_last(m.s.current),
                  at |-> NoNode, promoted |-> TRUE]
         ELSE [s |-> s, ns |-> ns, ret |-> None, at |-> NoNode, promoted |-> FALSE]
    ELSE [s |-> s, ns |-> ns, ret |-> chunk_last(s.current),
          at |-> NoNode, promoted |-> FALSE]

\* *r = value, for the reference r that top_mut returned.
SetLast(c, value) == IF Len(c) = 0 THEN c ELSE [c EXCEPT ![Len(c)] = value]

write(r, value) ==
    IF r.ret = None THEN [s |-> r.s, ns |-> r.ns]
    ELSE IF r.at = NoNode
    THEN [s |-> [r.s EXCEPT !.current = SetLast(@, value)], ns |-> r.ns]
    ELSE [s |-> r.s, ns |-> [r.ns EXCEPT ![r.at].current = SetLast(@, value)]]

\* Mutant of clone: the prev link is copied without counting the new owner.
clone_no_incref(s, ns) == [s |-> s, ns |-> ns]

\* #[derive(Clone)]: current is copied, the prev Rc gets one more owner.
clone(s, ns) == [s |-> s, ns |-> Rc_clone(ns, s.prev)]

\* Dropping a handle drops its prev Rc.
drop(s, ns) == Rc_drop(ns, s.prev)

\* ------------------------------------------------- node ids are addresses
\* No operation reads an address, so every action renumbers the nodes in the
\* order the handles reach them: states that differ only in addresses are one
\* state. A node keeps its fields; only the ids in prev links are renamed.
RECURSIVE ChainIds(_, _, _)
ChainIds(ns, n, fuel) ==
    IF n = NoNode \/ fuel = 0 THEN <<>>
    ELSE <<n>> \o ChainIds(ns, ns[n].prev, fuel - 1)

RECURSIVE Dedupe(_, _)
Dedupe(sq, seen) ==
    IF sq = <<>> THEN <<>>
    ELSE IF Head(sq) \in seen THEN Dedupe(Tail(sq), seen)
    ELSE <<Head(sq)>> \o Dedupe(Tail(sq), seen \cup {Head(sq)})

RECURSIVE SetToSeq(_)
SetToSeq(S) ==
    IF S = {} THEN <<>> ELSE LET m == MinOf(S) IN <<m>> \o SetToSeq(S \ {m})

Reached(hs, ns) ==
    LET K == Cardinality(NodeIds)
        hseq == SetToSeq(Handles)
        RECURSIVE All(_)
        All(i) == IF i > Len(hseq) THEN <<>>
                  ELSE ChainIds(ns, hs[hseq[i]].prev, K) \o All(i + 1)
    IN Dedupe(All(1), {})

Canon(hs, ns) ==
    LET reach == Reached(hs, ns)
        rs == {reach[i] : i \in 1..Len(reach)}
        order == reach \o SetToSeq({n \in NodeIds : ns[n].rc > 0 /\ n \notin rs})
        to == [n \in NodeIds \cup {NoNode} |->
                 IF \E i \in 1..Len(order) : order[i] = n
                 THEN CHOOSE i \in 1..Len(order) : order[i] = n ELSE NoNode]
    IN [hs |-> [h \in Handles |-> [hs[h] EXCEPT !.prev = to[@]]],
        ns |-> [i \in NodeIds |-> IF i <= Len(order)
                                  THEN [ns[order[i]] EXCEPT !.prev = to[@]]
                                  ELSE FreeNode]]

\* ------------------------------------------------------- reference model
RefTop(l) == IF Len(l) = 0 THEN None ELSE l[Len(l)]
RefPop(l) == IF Len(l) = 0 THEN l ELSE SubSeq(l, 1, Len(l) - 1)

Absent == [live |-> FALSE, prev |-> NoNode, current |-> <<>>]
Handle(s) == [live |-> TRUE, prev |-> s.prev, current |-> s.current]
StackOf(hs, h) == [prev |-> hs[h].prev, current |-> hs[h].current]
Stack(h) == StackOf(handles, h)
Live(h) == handles[h].live

\* ---------------------------------------------------------------- Init
InitCommon ==
    /\ handles = [h \in Handles |-> IF h = 1 THEN Handle(new) ELSE Absent]
    /\ nodes = [n \in NodeIds |-> FreeNode]
    /\ last = [op |-> "new", h |-> 1, ret |-> None, moved |-> "none"]
    /\ panicked = FALSE
    /\ ref = [h \in Handles |-> <<>>]
    /\ fresh = [h \in Handles |-> h = 1]
    /\ snap = [h \in Handles |-> <<>>]
    /\ npush = 0 /\ npop = 0 /\ npromote = 0 /\ nalloc = 0

\* main() has not been entered.
CliIdle ==
    /\ pc = "idle"
    /\ argv = <<>> /\ cli = <<>> /\ chosen = <<>>
    /\ reader = <<>> /\ li = 0 /\ buf = <<>> /\ yielded = <<>>
    /\ results = <<>> /\ ri = 0 /\ out = <<>>

Init == observe = "calls" /\ B \in 1..MaxB /\ InitCommon /\ CliIdle

InitHistory == observe = "history" /\ B \in 1..MaxB /\ InitCommon /\ CliIdle

InitCount == observe = "count" /\ B \in 1..(MaxB + 1) /\ InitCommon /\ CliIdle

\* ------------------------------------------------------------- actions
NoCount == UNCHANGED <<npush, npop, npromote, nalloc>>

Counted(pushes, pops, promotions, allocations) ==
    IF observe = "count"
    THEN /\ npush' = npush + pushes
         /\ npop' = npop + pops
         /\ npromote' = npromote + promotions
         /\ nalloc' = nalloc + allocations
    ELSE NoCount

\* The handles and nodes after a call, nodes renumbered when a link changed.
Commit(hs, ns) ==
    IF ns = nodes /\ \A h \in Handles : hs[h].prev = handles[h].prev
    THEN handles' = hs /\ nodes' = ns
    ELSE LET c == Canon(hs, ns) IN handles' = c.hs /\ nodes' = c.ns

Called(op, h, ret, moved) ==
    last' = IF observe = "calls"
            THEN [op |-> op, h |-> h, ret |-> ret, moved |-> moved]
            ELSE last

History(h, isFresh, snapshot) ==
    /\ fresh' = IF observe = "history" THEN [fresh EXCEPT ![h] = isFresh] ELSE fresh
    /\ snap' = IF observe = "history" THEN [snap EXCEPT ![h] = snapshot] ELSE snap

\* let mut s = PStack::new();
New(h) ==
    /\ ~panicked
    /\ UNCHANGED cliVars
    /\ ~Live(h)
    /\ Commit([handles EXCEPT ![h] = Handle(new)], nodes)
    /\ Called("new", h, None, "none")
    /\ ref' = [ref EXCEPT ![h] = <<>>]
    /\ History(h, TRUE, <<>>)
    /\ UNCHANGED <<observe, B, panicked>>
    /\ NoCount

\* let c = s.clone();
Clone(src, dst) ==
    /\ ~panicked
    /\ UNCHANGED cliVars
    /\ Live(src) /\ ~Live(dst)
    /\ LET r == clone(Stack(src), nodes)
       IN Commit([handles EXCEPT ![dst] = Handle(r.s)], r.ns)
    /\ Called("clone", dst, None, "none")
    /\ ref' = [ref EXCEPT ![dst] = ref[src]]
    /\ History(dst, FALSE, <<ref[src]>>)
    /\ UNCHANGED <<observe, B, panicked>>
    /\ NoCount

\* drop(s);
Drop(h) ==
    /\ ~panicked
    /\ UNCHANGED cliVars
    /\ Live(h)
    /\ Commit([handles EXCEPT ![h] = Absent], drop(Stack(h), nodes))
    /\ Called("drop", h, None, "none")
    /\ ref' = [ref EXCEPT ![h] = <<>>]
    /\ History(h, FALSE, <<>>)
    /\ UNCHANGED <<observe, B, panicked>>
    /\ NoCount

\* The model stops pushing at LenBound elements and (counting) at MaxPushes
\* calls; NodeIds holds an id for every node these pushes can fold.
LenBound == IF observe = "count" THEN MaxLen + 1 ELSE MaxLen

CanPush(h) ==
    /\ ~panicked
    /\ UNCHANGED cliVars
    /\ Live(h)
    /\ Len(ref[h]) < LenBound
    /\ FreeIds(nodes) # {}
    /\ observe = "count" => npush < MaxPushes

\* s.push(value);
Push(h, value) ==
    /\ CanPush(h)
    /\ LET r == push(Stack(h), nodes, value)
       IN /\ Commit([handles EXCEPT ![h] = Handle(r.s)], r.ns)
          /\ panicked' = r.panic
          /\ Called("push", h, None, IF r.folded THEN "fold" ELSE "none")
          /\ Counted(1, 0, 0, IF r.folded THEN 1 ELSE 0)
    /\ ref' = [ref EXCEPT ![h] = Append(@, value)]
    /\ History(h, fresh[h], <<>>)
    /\ UNCHANGED <<observe, B>>

\* let ret = s.pop();
Pop(h) ==
    /\ ~panicked
    /\ UNCHANGED cliVars
    /\ Live(h)
    /\ observe = "count" => npop < MaxPops
    /\ LET r == pop(Stack(h), nodes)
       IN /\ Commit([handles EXCEPT ![h] = Handle(r.s)], r.ns)
          /\ Called("pop", h, r.ret, IF r.promoted THEN "promote" ELSE "none")
          /\ Counted(0, 1, IF r.promoted THEN 1 ELSE 0, 0)
    /\ ref' = [ref EXCEPT ![h] = RefPop(@)]
    /\ History(h, FALSE, <<>>)
    /\ UNCHANGED <<observe, B, panicked>>

\* let ret = s.top();
Top(h) ==
    /\ ~panicked
    /\ UNCHANGED cliVars
    /\ Live(h)
    /\ Called("top", h, top(Stack(h), nodes), "none")
    /\ UNCHANGED <<observe, B, handles, nodes, panicked, ref, fresh, snap>>
    /\ NoCount

\* if let Some(r) = s.top_mut() { *r = value }
TopMut(h, value) ==
    /\ ~panicked
    /\ UNCHANGED cliVars
    /\ Live(h)
    /\ LET r == top_mut(Stack(h), nodes)
           w == write(r, value)
       IN /\ Commit([handles EXCEPT ![h] = Handle(w.s)], w.ns)
          /\ Called("top_mut", h, r.ret, IF r.promoted THEN "promote" ELSE "none")
    /\ ref' = [ref EXCEPT ![h] = SetLast(@, value)]
    /\ History(h, FALSE, <<>>)
    /\ UNCHANGED <<observe, B, panicked>>
    /\ NoCount

Next ==
    \/ \E h \in Handles : New(h)
    \/ \E src \in Handles, dst \in Handles : Clone(src, dst)
    \/ \E h \in Handles : Drop(h)
    \/ \E h \in Handles, value \in Val : Push(h, value)
    \/ \E h \in Handles : Pop(h)
    \/ \E h \in Handles : Top(h)
    \/ \E h \in Handles, value \in Val : TopMut(h, value)

Spec == Init /\ [][Next]_vars

SpecHistory == InitHistory /\ [][Next]_vars

\* One handle, from new(), under push and pop only, with its calls counted.
NextCount ==
    \/ \E value \in Val : Push(1, value)
    \/ Pop(1)

SpecCount == InitCount /\ [][NextCount]_vars

\* =========================================================== src/bin/main.rs
\* ------------------------------------------------ the command line and Cli
SerializationFormat == {"Json", "Yaml", "Toml"}
DefaultFormat == "Json"

NoOpt == [opt |-> "", val |-> ""]
NoFile == <<>>

\* -J, -Y, -T: group "format", at most one of them.
FormatGroup == {"", "-J", "-Y", "-T"}

\* group "input-format", at most one of them.
InputGroup ==
    {NoOpt}
    \cup {[opt |-> o, val |-> ""] :
             o \in {"--json-input", "--yaml-input", "--toml-input", "--raw-input"}}
    \cup {[opt |-> "--input-format", val |-> f] : f \in SerializationFormat}

\* group "output-format", at most one of them.
OutputGroup ==
    {NoOpt}
    \cup {[opt |-> o, val |-> ""] :
             o \in {"--json-output", "--yaml-output", "--toml-output"}}
    \cup {[opt |-> "--output-format", val |-> f] : f \in SerializationFormat}

\* The file argument: absent, or a name split at its dots.
Files ==
    {NoFile, <<"data">>, <<"data", "json">>, <<"data", "yaml">>,
     <<"data", "toml">>, <<"data", "yml">>}

\* The command lines clap accepts: the format options other than --raw-input
\* conflict with the group "format", -r and -c with the group "output-format".
CommandLines ==
    {a \in [format : FormatGroup, input : InputGroup, output : OutputGroup,
            raw_output : BOOLEAN, compact_output : BOOLEAN, file : Files] :
        /\ a.format # "" => (a.input.opt \in {"", "--raw-input"} /\ a.output = NoOpt)
        /\ (a.raw_output \/ a.compact_output) => a.output = NoOpt}

\* Cli::parse(): a flag is true iff given, a value option holds its value or,
\* when not given, the default of its type.
parse(a) ==
    [json |-> a.format = "-J",
     yaml |-> a.format = "-Y",
     toml |-> a.format = "-T",
     file |-> a.file,
     input_format |->
        [input_format |-> IF a.input.opt = "--input-format"
                          THEN a.input.val ELSE DefaultFormat,
         json_input |-> a.input.opt = "--json-input",
         yaml_input |-> a.input.opt = "--yaml-input",
         toml_input |-> a.input.opt = "--toml-input",
         raw_input |-> a.input.opt = "--raw-input"],
     output_format |->
        [output_format |-> IF a.output.opt = "--output-format"
                           THEN a.output.val ELSE DefaultFormat,
         json_output |-> a.output.opt = "--json-output",
         yaml_output |-> a.output.opt = "--yaml-output",
         toml_output |-> a.output.opt = "--toml-output",
         raw_output |-> a.raw_output,
         compact_output |-> a.compact_output]]

\* Path::extension(): the part after the last dot, "" for None.
extension(path) == IF Len(path) >= 2 THEN path[Len(path)] ELSE ""

get_input_format(c) ==
    IF c.json \/ c.input_format.json_input THEN "Json"
    ELSE IF c.yaml \/ c.input_format.yaml_input THEN "Yaml"
    ELSE IF c.toml \/ c.input_format.toml_input THEN "Toml"
    ELSE IF c.file # NoFile /\ extension(c.file) = "json" THEN "Json"
    ELSE IF c.file # NoFile /\ extension(c.file) = "yaml" THEN "Yaml"
    ELSE IF c.file # NoFile /\ extension(c.file) = "toml" THEN "Toml"
    ELSE c.input_format.input_format

get_output_format(c) ==
    IF c.json \/ c.output_format.json_output THEN "Json"
    ELSE IF c.yaml \/ c.output_format.yaml_output THEN "Yaml"
    ELSE IF c.toml \/ c.output_format.toml_output THEN "Toml"
    ELSE IF c.file # NoFile /\ extension(c.file) = "json" THEN "Json"
    ELSE IF c.file # NoFile /\ extension(c.file) = "yaml" THEN "Yaml"
    ELSE IF c.file # NoFile /\ extension(c.file) = "toml" THEN "Toml"
    ELSE c.output_format.output_format

\* No stack is exercised while main() runs.
StackIdle == observe = "cli" /\ B = 1 /\ InitCommon

InitFormat ==
    /\ StackIdle
    /\ pc = "main"
    /\ argv \in CommandLines
    /\ cli = <<>> /\ chosen = <<>>
    /\ reader = <<>> /\ li = 0 /\ buf = <<>> /\ yielded = <<>>
    /\ results = <<>> /\ ri = 0 /\ out = <<>>

\* let cli: Cli = Cli::parse();
Parse ==
    /\ pc = "main"
    /\ cli' = parse(argv)
    /\ pc' = "parsed"
    /\ UNCHANGED <<argv, chosen, reader, li, buf, yielded, results, ri, out>>
    /\ UNCHANGED stackVars

\* cli.get_input_format() in read_and_run, cli.get_output_format() in
\* run_with_input.
GetFormats ==
    /\ pc = "parsed"
    /\ chosen' = [input |-> get_input_format(cli), output |-> get_output_format(cli)]
    /\ pc' = "formats"
    /\ UNCHANGED <<argv, cli, reader, li, buf, yielded, results, ri, out>>
    /\ UNCHANGED stackVars

NextFormat == Parse \/ GetFormats

SpecFormat == InitFormat /\ [][NextFormat]_vars

\* ----------------------------------------------------------- run_with_input
\* The kinds of Value a query yields, and the items of result_iterator.
Values == {"null", "string", "object", "number"}
Results ==
    {[ok |-> TRUE, value |-> v] : v \in Values} \cup {[ok |-> FALSE, value |-> "error"]}

RECURSIVE SeqsUpTo(_, _)
SeqsUpTo(S, n) ==
    IF n = 0 THEN {<<>>}
    ELSE LET shorter == SeqsUpTo(S, n - 1)
         IN shorter \cup {Append(q, x) : q \in {r \in shorter : Len(r) = n - 1}, x \in S}

Written(stream, by, value, end) ==
    [stream |-> stream, by |-> by, value |-> value, end |-> end]

\* Err(e) => eprintln!("Error: {e:?}")
report(item) == Written("stderr", "Debug", item.value, "\n")

\* One pass of the loop over result_iterator in the Json arm: what it writes.
json_arm(c, item) ==
    IF item.ok /\ item.value = "string" /\ c.output_format.raw_output
    THEN Written("stdout", "Display", item.value, "\n\n")
    ELSE IF item.ok
    THEN Written("stdout",
                 IF c.output_format.compact_output
                 THEN "serde_json::to_string" ELSE "serde_json::to_string_pretty",
                 item.value, "\n")
    ELSE report(item)

\* One pass of the loop in the Yaml arm.
yaml_arm(c, item) ==
    IF item.ok THEN Written("stdout", "serde_yaml::to_writer", item.value, "\n")
    ELSE report(item)

\* One pass of the loop in the Toml arm: what it writes and whether it returns.
toml_arm(c, item) ==
    IF item.ok /\ item.value = "null"
    THEN [write |-> Written("stdout", "literal", item.value, "\n"), return |-> TRUE]
    ELSE IF item.ok /\ item.value = "object"
    THEN [write |-> Written("stdout",
                            IF c.output_format.compact_output
                            THEN "toml::to_string_pretty" ELSE "toml::to_string",
                            item.value, ""),
          return |-> FALSE]
    ELSE IF item.ok
    THEN [write |-> Written("stdout", "toml::ser::ValueSerializer", item.value, "\n"),
          return |-> FALSE]
    ELSE [write |-> report(item), return |-> FALSE]

\* run_with_input is entered with the output format chosen; every value drawn
\* is one each serializer accepts, and stdout takes every write.
InitRun ==
    /\ StackIdle
    /\ pc = "run"
    /\ argv \in {a \in CommandLines : a.input = NoOpt /\ a.output = NoOpt /\ a.file = NoFile}
    /\ cli = parse(argv)
    /\ chosen = [input |-> get_input_format(cli), output |-> get_output_format(cli)]
    /\ reader = <<>> /\ li = 0 /\ buf = <<>> /\ yielded = <<>>
    /\ results \in SeqsUpTo(Results, MaxResults)
    /\ ri = 0 /\ out = <<>>

RunJson ==
    /\ pc = "run" /\ chosen.output = "Json" /\ ri < Len(results)
    /\ out' = Append(out, json_arm(cli, results[ri + 1]))
    /\ ri' = ri + 1
    /\ UNCHANGED <<pc, argv, cli, chosen, reader, li, buf, yielded, results>>
    /\ UNCHANGED stackVars

RunYaml ==
    /\ pc = "run" /\ chosen.output = "Yaml" /\ ri < Len(results)
    /\ out' = Append(out, yaml_arm(cli, results[ri + 1]))
    /\ ri' = ri + 1
    /\ UNCHANGED <<pc, argv, cli, chosen, reader, li, buf, yielded, results>>
    /\ UNCHANGED stackVars

RunToml ==
    /\ pc = "run" /\ chosen.output = "Toml" /\ ri < Len(results)
    /\ LET r == toml_arm(cli, results[ri + 1])
       IN /\ out' = Append(out, r.write)
          /\ pc' = IF r.return THEN "returned" ELSE pc
    /\ ri' = ri + 1
    /\ UNCHANGED <<argv, cli, chosen, reader, li, buf, yielded, results>>
    /\ UNCHANGED stackVars

\* The iterator is exhausted: Ok(())
RunReturn ==
    /\ pc = "run" /\ ri = Len(results)
    /\ pc' = "returned"
    /\ UNCHANGED <<argv, cli, chosen, reader, li, buf, yielded, results, ri, out>>
    /\ UNCHANGED stackVars

NextRun == RunJson \/ RunYaml \/ RunToml \/ RunReturn

SpecRun == InitRun /\ [][NextRun]_vars

\* ------------------------------------------------ read_and_run, TOML input
\* A line is the sequence of its characters, without its line ending.
Delimiter == <<"+", "+", "+">>
Whitespace == {" ", "\t"}
Lines ==
    {Delimiter, <<" ", "+", "+", "+", " ">>, <<"+", "+">>, <<"a">>, <<>>}

\* The items of reader.lines(): a line, or an io::Error.
ReadItems == {[ok |-> TRUE, line |-> l] : l \in Lines} \cup {[ok |-> FALSE, line |-> <<>>]}

RECURSIVE trim_start(_)
trim_start(l) ==
    IF l # <<>> /\ l[1] \in Whitespace THEN trim_start(Tail(l)) ELSE l

RECURSIVE trim_end(_)
trim_end(l) ==
    IF l # <<>> /\ l[Len(l)] \in Whitespace
    THEN trim_end(SubSeq(l, 1, Len(l) - 1)) ELSE l

trim(l) == trim_end(trim_start(l))

\* toml::from_str(&buf).map_err(InputError::new): the result of parsing text.
toml_from_str(text) == [kind |-> "parsed", text |-> text]

\* Err(e) => Some(Err(InputError::new(e)))
read_error == [kind |-> "read error", text |-> <<>>]

NoItem == [kind |-> "none", text |-> <<>>]

\* Mutant of split_on_section_dividers: buf is not cleared at a divider.
split_keep_buf(b, res) ==
    IF res.ok
    THEN IF trim(res.line) = Delimiter
         THEN [buf |-> b, item |-> toml_from_str(b)]
         ELSE [buf |-> b \o res.line \o <<"\n">>, item |-> NoItem]
    ELSE [buf |-> b, item |-> read_error]

\* The closure given to filter_map: the buf it leaves and the item it yields.
split_on_section_dividers(b, res) ==
    IF res.ok
    THEN IF trim(res.line) = Delimiter
         THEN [buf |-> <<>>, item |-> toml_from_str(b)]
         ELSE [buf |-> b \o res.line \o <<"\n">>, item |-> NoItem]
    ELSE [buf |-> b, item |-> read_error]

InitRead ==
    /\ StackIdle
    /\ pc = "read"
    /\ argv = <<>> /\ cli = <<>> /\ chosen = <<>>
    /\ reader \in SeqsUpTo(ReadItems, MaxLines)
    /\ li = 0 /\ buf = <<>> /\ yielded = <<>>
    /\ results = <<>> /\ ri = 0 /\ out = <<>>

Consume(res) ==
    LET r == split_on_section_dividers(buf, res)
    IN /\ buf' = r.buf
       /\ yielded' = IF r.item = NoItem THEN yielded ELSE Append(yielded, r.item)

\* The next item of reader.lines() goes through the closure.
ReadLine ==
    /\ pc = "read" /\ li < Len(reader)
    /\ Consume(reader[li + 1])
    /\ li' = li + 1
    /\ UNCHANGED <<pc, argv, cli, chosen, reader, results, ri, out>>
    /\ UNCHANGED stackVars

\* reader.lines() is exhausted: the chained Ok("+++") goes through the closure.
ReadChained ==
    /\ pc = "read" /\ li = Len(reader)
    /\ Consume([ok |-> TRUE, line |-> Delimiter])
    /\ pc' = "eof"
    /\ UNCHANGED <<argv, cli, chosen, reader, li, results, ri, out>>
    /\ UNCHANGED stackVars

NextRead == ReadLine \/ ReadChained

SpecRead == InitRead /\ [][NextRead]_vars

\* ------------------------------------------------------------- claims
Reverse(l) == [i \in 1..Len(l) |-> l[Len(l) + 1 - i]]

\* What k consecutive pop() calls return, first call first.
RECURSIVE PopResults(_, _, _)
PopResults(s, ns, k) ==
    IF k = 0 THEN <<>>
    ELSE LET r == pop(s, ns) IN <<r.ret>> \o PopResults(r.s, r.ns, k - 1)

\* Draining a list top first, then the None of the next pop.
DrainOf(l) == Reverse(l) \o <<None>>

\* More pops than any handle of the model holds elements.
Fuel == LenBound + 2

\* C1 (snapshot equivalence): while a clone c has not been operated on itself,
\* whatever has since been done to its source or to other handles, popping c
\* once more than the source held elements at the clone returns exactly those
\* elements, top first, and then None.
C1_SnapshotEquivalence ==
    \A c \in Handles :
        (Live(c) /\ snap[c] # <<>>) =>
            PopResults(Stack(c), nodes, Len(snap[c][1]) + 1) = DrainOf(snap[c][1])

\* A snapshot of MaxLen elements that shares a chain node, whose other handle
\* has been operated on since and now holds something else.
C1_Witness ==
    \E c \in Handles, s \in Handles :
        /\ c # s /\ Live(c) /\ Live(s)
        /\ snap[c] # <<>> /\ Len(snap[c][1]) = MaxLen
        /\ handles[c].prev # NoNode
        /\ ~fresh[s] /\ snap[s] = <<>> /\ ref[s] # snap[c][1]

\* C2 (order law): a handle made by new() and pushed v0 .. vn-1, and nothing
\* else, pops vn-1 .. v0 in that order, and its (n+1)-th pop returns None.
C2_OrderLaw ==
    \A h \in Handles :
        (Live(h) /\ fresh[h]) =>
            PopResults(Stack(h), nodes, Len(ref[h]) + 1) = DrainOf(ref[h])

\* n = MaxLen pushes that went through two folds (a chain of two nodes).
C2_Witness ==
    \E h \in Handles :
        /\ Live(h) /\ fresh[h] /\ Len(ref[h]) = MaxLen
        /\ handles[h].prev # NoNode
        /\ nodes[handles[h].prev].prev # NoNode

\* C3 (clone independence): a push, pop or top_mut on one handle leaves what
\* every other handle reads, by top() and by draining it with pop(), unchanged.
C3_CloneIndependence ==
    [][last'.op \in {"push", "pop", "top_mut"} =>
         \A g \in Handles \ {last'.h} :
             (Live(g) /\ handles'[g].live) =>
                 /\ top(StackOf(handles', g), nodes') = top(Stack(g), nodes)
                 /\ PopResults(StackOf(handles', g), nodes', Fuel)
                      = PopResults(Stack(g), nodes, Fuel)]_vars

\* A top_mut on one handle promoted a chain node while the other handle was live
\* with a chain of its own; the two handles now hold different sequences.
C3_Witness ==
    /\ last.op = "top_mut" /\ last.moved = "promote"
    /\ \E g \in Handles \ {last.h} :
           /\ Live(g) /\ Live(last.h)
           /\ handles[g].prev # NoNode
           /\ ref[g] # ref[last.h]

\* C4 (LIFO refinement): every pop returns what the reference list returns, the
\* most recent value not yet popped or None, and after every push and pop the
\* handle drains to exactly the reference list: nothing lost, nothing duplicated.
C4_LifoRefinement ==
    [][last'.op \in {"push", "pop"} =>
         /\ last'.op = "pop" => last'.ret = RefTop(ref[last'.h])
         /\ PopResults(StackOf(handles', last'.h), nodes', Len(ref'[last'.h]) + 1)
              = DrainOf(ref'[last'.h])]_vars

\* A pop that crossed a chunk boundary: it promoted a chain node that an earlier
\* push had folded on top of another node, and returned that node's top element.
C4_Witness ==
    /\ last.op = "pop" /\ last.moved = "promote" /\ last.ret # None
    /\ Live(last.h)
    /\ handles[last.h].prev # NoNode

\* What a handle holds: its own chunk and the chunks of its chain, newest first.
View(hs, ns, g) ==
    [live |-> hs[g].live, current |-> hs[g].current, chain |-> Chain(ns, hs[g].prev)]

\* Every live chain node holds the chain it was made with.
NodesAsMade(ns) ==
    \A n \in NodeIds : ns[n].rc > 0 => Chain(ns, n) = ns[n].made

\* C5 (top_mut): top_mut returns None iff the handle is logically empty, else a
\* reference to the logical top; a promotion it performs only copies the
\* previous node's chunk into current and advances prev; after the write the
\* handle holds the same sequence with the written value on top; every other
\* handle and every chain node hold what they held.
C5_TopMut ==
    [][last'.op = "top_mut" =>
         LET h == last'.h
             s == Stack(h)
             t == StackOf(handles', h)
         IN /\ (last'.ret = None) <=> (ref[h] = <<>>)
            /\ last'.ret = RefTop(ref[h])
            /\ (is_empty(s.current) /\ s.prev # NoNode) =>
                   /\ Len(t.current) = Len(nodes[s.prev].current)
                   /\ chunk_pop(t.current) = chunk_pop(nodes[s.prev].current)
                   /\ Chain(nodes', t.prev) = Chain(nodes, nodes[s.prev].prev)
            /\ ~is_empty(s.current) =>
                   /\ Len(t.current) = Len(s.current)
                   /\ chunk_pop(t.current) = chunk_pop(s.current)
                   /\ Chain(nodes', t.prev) = Chain(nodes, s.prev)
            /\ chunk_last(t.current) = RefTop(ref'[h])
            /\ RefPop(ref'[h]) = RefPop(ref[h]) /\ Len(ref'[h]) = Len(ref[h])
            /\ PopResults(t, nodes', Len(ref[h]) + 1) = DrainOf(ref'[h])
            /\ \A g \in Handles \ {h} :
                   View(handles', nodes', g) = View(handles, nodes, g)
            /\ NodesAsMade(nodes')]_vars

\* A top_mut that promoted a chain node and wrote a new value, while the other
\* handle, its current empty, still reads the old value off a chain node.
C5_Witness ==
    /\ last.op = "top_mut" /\ last.moved = "promote" /\ last.ret # None
    /\ Live(last.h)
    /\ RefTop(ref[last.h]) # last.ret
    /\ \E g \in Handles \ {last.h} :
           /\ Live(g)
           /\ handles[g].current = <<>> /\ handles[g].prev # NoNode
           /\ top(Stack(g), nodes) = last.ret

\* C6 (top): top returns what a pop that follows at once returns, None iff the
\* handle is logically empty, and leaves every handle and node as it was.
C6_Top ==
    [][last'.op = "top" =>
         LET h == last'.h
         IN /\ last'.ret = pop(StackOf(handles', h), nodes').ret
            /\ (last'.ret = None) <=> (ref'[h] = <<>>)
            /\ handles' = handles /\ nodes' = nodes]_vars

\* A top that read its element off the previous chain node: current is empty.
C6_Witness ==
    /\ last.op = "top" /\ last.ret # None
    /\ Live(last.h)
    /\ handles[last.h].current = <<>> /\ handles[last.h].prev # NoNode

\* C7 (underflow law): pop, top and top_mut on a logically empty handle return
\* None and change nothing; the handle is then as new() makes it: further calls
\* return None again and a push does what it does on a fresh stack.
C7_Underflow ==
    [][(last'.op \in {"pop", "top", "top_mut"} /\ Live(last'.h)
          /\ ref[last'.h] = <<>>) =>
         LET t == StackOf(handles', last'.h)
         IN /\ last'.ret = None
            /\ handles' = handles /\ nodes' = nodes
            /\ t = new
            /\ PopResults(t, nodes', Fuel) = [i \in 1..Fuel |-> None]
            /\ top(t, nodes') = None
            /\ top_mut(t, nodes').ret = None
            /\ \A v \in Val : push(t, nodes', v) = push(new, nodes', v)]_vars

\* A pop that returned None on an empty handle while the other handle still
\* holds a chain: the empty handle is a drained or fresh one among live data.
C7_Witness ==
    /\ last.op = "pop" /\ last.ret = None
    /\ Live(last.h) /\ ref[last.h] = <<>>
    /\ \E g \in Handles \ {last.h} : Live(g) /\ handles[g].prev # NoNode

\* C8 (chain-node immutability): in every reachable state every live chain
\* node holds the chunk and the chain below it that it was created with.
C8_NodesImmutable == NodesAsMade(nodes)

\* One handle has just promoted the node the other handle still links to, so
\* the node below it is now shared by that node and by the promoting handle.
C8_Witness ==
    /\ last.op \in {"pop", "top_mut"} /\ last.moved = "promote"
    /\ Live(last.h)
    /\ \E g \in Handles \ {last.h} :
           /\ Live(g)
           /\ handles[g].prev # NoNode
           /\ nodes[handles[g].prev].prev # NoNode
           /\ handles[last.h].prev = nodes[handles[g].prev].prev
           /\ nodes[handles[last.h].prev].rc = 2

MinB2 == IF B < 2 THEN B ELSE 2

\* C9 as claimed: promotions are at most pops / B, rounded up.
C9_PromotionsPerB == npromote <= (npop + B - 1) \div B

\* C9 (amended): promotions are at most pops / min(B, 2), rounded up: between
\* two promotions there is a pop that promotes nothing, and no more than that.
C9_PromotionsPerTwo == npromote <= (npop + MinB2 - 1) \div MinB2

\* Capacity 3, two pops and two pushes repeated at a chunk boundary: three
\* promotions in six pops.
C9_Witness == B = 3 /\ npromote = 3 /\ npop = 6

\* C10 as claimed: chain nodes allocated are at most pushes / B.
C10_AllocationsPerB == nalloc <= npush \div B

\* C10 (amended): chain nodes allocated are at most pushes / min(B, 2).
C10_AllocationsPerTwo == nalloc <= npush \div MinB2

\* Capacity 3: three chain nodes allocated by eight pushes.
C10_Witness == B = 3 /\ nalloc = 3 /\ npush = 8

\* C13 (chunk capacity): no chunk, a handle's current or a chain node's, ever
\* holds more than B elements; push has never panicked, and from no reachable
\* state does a push panic: its append always finds a free slot.
C13_ChunkCapacity ==
    /\ ~panicked
    /\ \A h \in Handles : Live(h) =>
           /\ Len(handles[h].current) <= B
           /\ \A v \in Val :
                  FreeIds(nodes) # {} => ~push(Stack(h), nodes, v).panic
    /\ \A n \in NodeIds : Len(nodes[n].current) <= B

\* A push on a full current of the largest capacity: it folded and appended.
C13_Witness ==
    /\ last.op = "push" /\ last.moved = "fold"
    /\ B = MaxB /\ Live(last.h)
    /\ Len(handles[last.h].current) = 1
    /\ handles[last.h].prev # NoNode
    /\ Len(nodes[handles[last.h].prev].current) = B

\* C14 (full chain nodes): every live chain node holds exactly B elements; so
\* a handle with an empty current and a prev link pops Some and tops Some.
C14_NodesFull ==
    /\ \A n \in NodeIds : nodes[n].rc > 0 => Len(nodes[n].current) = B
    /\ \A h \in Handles :
           (Live(h) /\ is_empty(handles[h].current) /\ handles[h].prev # NoNode) =>
               /\ pop(Stack(h), nodes).ret # None
               /\ pop(Stack(h), nodes).promoted
               /\ top(Stack(h), nodes) # None

\* A handle whose current a pop has emptied while it still links to a chain of
\* two nodes.
C14_Witness ==
    /\ last.op = "pop" /\ last.ret # None /\ Live(last.h)
    /\ is_empty(handles[last.h].current)
    /\ handles[last.h].prev # NoNode
    /\ nodes[handles[last.h].prev].prev # NoNode

\* The handle after k pops.
RECURSIVE AfterPops(_, _, _)
AfterPops(s, ns, k) ==
    IF k = 0 THEN [s |-> s, ns |-> ns]
    ELSE LET r == pop(s, ns) IN AfterPops(r.s, r.ns, k - 1)

\* C15 (terminal state): a handle is logically empty iff its current is empty
\* and it has no prev link; popping every element of any handle leaves it as
\* new() makes it, and a handle that was the only owner leaves no node behind.
C15_TerminalState ==
    \A h \in Handles : Live(h) =>
        /\ (ref[h] = <<>>) <=> (is_empty(handles[h].current) /\ handles[h].prev = NoNode)
        /\ LET d == AfterPops(Stack(h), nodes, Len(ref[h]))
           IN /\ d.s = new
              /\ (\A g \in Handles \ {h} : ~Live(g)) =>
                     \A n \in NodeIds : d.ns[n] = FreeNode

\* A handle drained by pops, the last of which promoted the last chain node,
\* beside a handle that still holds a chain.
C15_Witness ==
    /\ last.op = "pop" /\ last.moved = "promote" /\ Live(last.h)
    /\ ref[last.h] = <<>>
    /\ \E g \in Handles \ {last.h} : Live(g) /\ handles[g].prev # NoNode

\* The handles and the live nodes that link to node n.
Owners(n) ==
    Cardinality({h \in Handles : Live(h) /\ handles[h].prev = n})
    + Cardinality({m \in NodeIds : nodes[m].rc > 0 /\ nodes[m].prev = n})

\* C16 (reference counts): the count of every node is the number of live handles
\* and live nodes linking to it, so a node is released exactly when nothing
\* links to it, a released node counts no longer as an owner of its prev, and
\* a released node holds nothing and is linked by nobody.
C16_RefCounts ==
    \A n \in NodeIds :
        /\ nodes[n].rc = Owners(n)
        /\ nodes[n].rc = 0 => nodes[n] = FreeNode

\* A promotion released a node whose prev is still owned twice: by the handle
\* that promoted and by a node of the other handle's chain.
C16_Witness ==
    /\ last.moved = "promote" /\ Live(last.h)
    /\ handles[last.h].prev # NoNode
    /\ nodes[handles[last.h].prev].rc = 2
    /\ \E m \in NodeIds :
           nodes[m].rc = 1 /\ nodes[m].prev = handles[last.h].prev
    /\ \E n \in NodeIds : nodes[n].rc = 0

Class(c) == IF Len(c) = 0 THEN "Empty" ELSE IF Len(c) = B THEN "Full" ELSE "Partial"

\* C17 as claimed: every push and pop step is one of push(Partial -> Partial or
\* Full), push(Full -> fold -> Partial), pop(Partial -> Partial or Empty),
\* pop(Empty with previous -> promote).
C17_OnlyListedTransitions ==
    [][last'.op \in {"push", "pop"} =>
         LET h == last'.h
             pre == Class(handles[h].current)
             post == Class(handles'[h].current)
         IN \/ /\ last'.op = "push" /\ pre = "Partial" /\ last'.moved = "none"
               /\ post \in {"Partial", "Full"}
            \/ /\ last'.op = "push" /\ pre = "Full" /\ last'.moved = "fold"
               /\ post = "Partial"
            \/ /\ last'.op = "pop" /\ pre = "Partial" /\ last'.moved = "none"
               /\ post \in {"Partial", "Empty"}
            \/ /\ last'.op = "pop" /\ pre = "Empty" /\ handles[h].prev # NoNode
               /\ last'.moved = "promote"]_vars

\* C17 (amended): the transitions of current are those claimed and also
\* push(Empty -> Partial or Full), pop(Full -> Partial or Empty), pop(Empty
\* without previous -> Empty), and with B = 1 a fold leaves current Full and a
\* promoting pop leaves it Empty. A push folds iff current was Full, a pop
\* promotes iff current was Empty with a previous node. On a fold the new node
\* holds the old current chunk and the old prev chain and current holds only
\* the pushed value; a promoting pop leaves the node's chunk less its top.
C17_Transitions ==
    [][last'.op \in {"push", "pop"} =>
         LET h == last'.h
             s == Stack(h)
             t == StackOf(handles', h)
             pre == Class(s.current)
             post == Class(t.current)
         IN /\ last'.op = "push" =>
                 /\ (last'.moved = "fold") <=> (pre = "Full")
                 /\ pre # "Full" =>
                        /\ Len(t.current) = Len(s.current) + 1
                        /\ chunk_pop(t.current) = s.current
                        /\ post \in {"Partial", "Full"}
                        /\ Chain(nodes', t.prev) = Chain(nodes, s.prev)
                 /\ pre = "Full" =>
                        /\ Len(t.current) = 1
                        /\ post = (IF B = 1 THEN "Full" ELSE "Partial")
                        /\ t.prev # NoNode
                        /\ nodes'[t.prev].current = s.current
                        /\ nodes'[t.prev].rc = 1
                        /\ Chain(nodes', nodes'[t.prev].prev) = Chain(nodes, s.prev)
            /\ last'.op = "pop" =>
                 /\ (last'.moved = "promote") <=> (pre = "Empty" /\ s.prev # NoNode)
                 /\ pre # "Empty" =>
                        /\ t.current = chunk_pop(s.current)
                        /\ post \in {"Partial", "Empty"}
                        /\ Chain(nodes', t.prev) = Chain(nodes, s.prev)
                 /\ (pre = "Empty" /\ s.prev # NoNode) =>
                        /\ t.current = chunk_pop(nodes[s.prev].current)
                        /\ post = (IF B = 1 THEN "Empty" ELSE "Partial")
                        /\ Chain(nodes', t.prev) = Chain(nodes, nodes[s.prev].prev)
                 /\ (pre = "Empty" /\ s.prev = NoNode) => t = s]_vars

\* A push that folded a full current on top of an existing chain node.
C17_Witness ==
    /\ last.op = "push" /\ last.moved = "fold" /\ Live(last.h)
    /\ B = MaxB
    /\ handles[last.h].prev # NoNode
    /\ Len(handles[last.h].current) = 1
    /\ \E g \in Handles \ {last.h} : Live(g) /\ handles[g].prev # NoNode

\* ------------------------------------------------- claims on src/bin/main.rs
\* The format the command line names for the input, "" when it names none.
ExplicitInput(a) ==
    IF a.format = "-J" \/ a.input.opt = "--json-input" THEN "Json"
    ELSE IF a.format = "-Y" \/ a.input.opt = "--yaml-input" THEN "Yaml"
    ELSE IF a.format = "-T" \/ a.input.opt = "--toml-input" THEN "Toml"
    ELSE IF a.input.opt = "--input-format" THEN a.input.val
    ELSE ""

\* The format the command line names for the output, "" when it names none.
ExplicitOutput(a) ==
    IF a.format = "-J" \/ a.output.opt = "--json-output" THEN "Json"
    ELSE IF a.format = "-Y" \/ a.output.opt = "--yaml-output" THEN "Yaml"
    ELSE IF a.format = "-T" \/ a.output.opt = "--toml-output" THEN "Toml"
    ELSE IF a.output.opt = "--output-format" THEN a.output.val
    ELSE ""

\* The format a file name selects when no option names one.
ByExtension(file) ==
    IF file # NoFile /\ extension(file) = "json" THEN "Json"
    ELSE IF file # NoFile /\ extension(file) = "yaml" THEN "Yaml"
    ELSE IF file # NoFile /\ extension(file) = "toml" THEN "Toml"
    ELSE DefaultFormat

\* C11 (format precedence): a format named on the command line, by -J/-Y/-T, by
\* --json-input and its like or by --input-format/--output-format with a value,
\* is the format chosen; the file extension chooses only when none is named.
C11_ExplicitFormatWins ==
    pc = "formats" =>
        /\ chosen.input = IF ExplicitInput(argv) # "" THEN ExplicitInput(argv)
                          ELSE ByExtension(argv.file)
        /\ chosen.output = IF ExplicitOutput(argv) # "" THEN ExplicitOutput(argv)
                           ELSE ByExtension(argv.file)

\* C12 (compact output): a JSON value and a TOML table are written by the
\* compact serializer when --compact-output is given and by the pretty one
\* when it is not.
C12_CompactSelectsSerializer ==
    \A i \in 1..Len(out) :
        /\ (chosen.output = "Json" /\ results[i].ok
              /\ ~(results[i].value = "string" /\ cli.output_format.raw_output)) =>
               out[i].by = IF cli.output_format.compact_output
                           THEN "serde_json::to_string"
                           ELSE "serde_json::to_string_pretty"
        /\ (chosen.output = "Toml" /\ results[i].ok /\ results[i].value = "object") =>
               out[i].by = IF cli.output_format.compact_output
                           THEN "toml::to_string"
                           ELSE "toml::to_string_pretty"

\* C18 (results loop): in every output format the items of the result iterator
\* are handled in order, each Ok written to stdout and each Err to stderr, and
\* run_with_input returns only when every item has been handled.
C18_EveryResultHandled ==
    /\ Len(out) = ri
    /\ \A i \in 1..Len(out) :
           /\ out[i].stream = IF results[i].ok THEN "stdout" ELSE "stderr"
           /\ out[i].value = results[i].value
    /\ pc = "returned" => ri = Len(results)

\* ---- read_and_run, TOML input
\* reader.lines() followed by the chained delimiter.
Chained == reader \o <<[ok |-> TRUE, line |-> Delimiter]>>

\* Items of Chained consumed so far.
Consumed == IF pc = "eof" THEN li + 1 ELSE li

IsDelimiter(s, i) == s[i].ok /\ trim(s[i].line) = Delimiter

\* The last delimiter before position i, 0 when there is none.
DelimiterBefore(s, i) ==
    LET D == {j \in 1..(i - 1) : IsDelimiter(s, j)}
    IN IF D = {} THEN 0 ELSE CHOOSE j \in D : \A k \in D : k <= j

\* The lines read at positions lo+1 .. hi-1, each with its line ending.
RECURSIVE TextBetween(_, _, _)
TextBetween(s, lo, hi) ==
    IF lo + 1 >= hi THEN <<>>
    ELSE TextBetween(s, lo, hi - 1)
         \o (IF s[hi - 1].ok THEN s[hi - 1].line \o <<"\n">> ELSE <<>>)

\* The positions among the first n at which an item is yielded.
YieldsAt(s, n) == {i \in 1..n : ~s[i].ok \/ IsDelimiter(s, i)}

\* C19 (TOML sections): the iterator yields, in input order, one parsed value
\* per delimiter line, the appended final delimiter included, so k delimiter
\* lines give k + 1 values; each is parsed from exactly the lines read since
\* the delimiter before it; buf holds exactly the lines of the section being
\* read, so it is empty where a section starts; a line that cannot be read
\* yields an error item of its own.
C19_OneValuePerSection ==
    /\ Len(yielded) = Cardinality(YieldsAt(Chained, Consumed))
    /\ \A i \in YieldsAt(Chained, Consumed) :
           yielded[Cardinality(YieldsAt(Chained, i))] =
               IF Chained[i].ok
               THEN toml_from_str(TextBetween(Chained, DelimiterBefore(Chained, i), i))
               ELSE read_error
    /\ buf = TextBetween(Chained, DelimiterBefore(Chained, Consumed + 1), Consumed + 1)
    /\ (Consumed = 0 \/ (Consumed > 0 /\ IsDelimiter(Chained, Consumed))) => buf = <<>>
    /\ pc = "eof" =>
           Cardinality({j \in 1..Len(yielded) : yielded[j].kind = "parsed"})
               = Cardinality({i \in 1..Len(reader) : IsDelimiter(reader, i)}) + 1

\* Input of the full length read to its end: a section with text, a delimiter
\* line padded with blanks, another section with text.
C19_Witness ==
    /\ pc = "eof" /\ Len(reader) = MaxLines
    /\ \E i \in 2..(MaxLines - 1) :
           IsDelimiter(reader, i) /\ reader[i].line # Delimiter
    /\ Len(yielded) = 2
    /\ yielded[1].kind = "parsed" /\ yielded[1].text # <<>>
    /\ yielded[2].kind = "parsed" /\ yielded[2].text # <<>>
====
